---- MODULE Spec2Model ----
(***************************************************************************)
(* Model of programs/marginfi/src/state/marginfi_group.rs: the share        *)
(* ledger of a Bank (change_deposit_shares, change_liability_shares,       *)
(* configure, get_weights, the value/share conversions) and the            *)
(* MarginfiGroup that owns the LendingPool.                                *)
(*                                                                         *)
(* Numbers.  The source computes in fixed::types::I80F48: a signed 128-bit *)
(* two's-complement integer ("bits") read with 48 fractional bits.  TLC's   *)
(* integers are 32 bits wide, so the model keeps the representation (a     *)
(* value IS its raw bits, every operation is the checked operation on the  *)
(* bits) and scales the widths: I80F48_BITS bits in all, FRAC_NBITS of     *)
(* them fractional.  Every max_capacity used is below the largest integer  *)
(* of the scaled type, as every u64 is below that of I80F48, so the        *)
(* conversion of a capacity to fixed point is lossless as in the source.   *)
(* Nothing below depends on the widths except through these two names.     *)
(*                                                                         *)
(* Floats.  clients/rust/defi-lamma-snapshot-builder/src/main.rs computes *)
(* apr_to_apy in f64.  The model keeps IEEE 754 binary floating point      *)
(* (signed zeros, subnormals, infinities, NaN, round to nearest with ties  *)
(* to even after +, - and /, powf as the platform's pow) and scales the    *)
(* significand to MANTISSA_DIGITS bits and the exponent range to MAX_EXP.  *)
(*                                                                         *)
(* Panics.  from_bank unwraps and uses the operators of I80F48; a panic is *)
(* an outcome of the call.  Which overflows panic depends on the build     *)
(* (overflow checks, debug assertions), which is an input of the call.     *)
(*                                                                         *)
(* Macros.  check!, math_error! and set_if_some! are expanded where the    *)
(* source invokes them: check!(c, e) returns Err(e) unless c,              *)
(* x.ok_or_else(math_error!())? returns Err(MathError) when x is None, and *)
(* set_if_some!(a, o) assigns a the payload of o when o is Some.           *)
(***************************************************************************)
EXTENDS Integers, Sequences, FiniteSets, TLC

\* ------------------------------------------------------------- bounds
\* Scaled widths of the fixed-point type (128 and 48 in the source).
I80F48_BITS == 15
FRAC_NBITS == 3
\* Pubkeys are 0..NumKeys; 0 is Pubkey::default().
NumKeys == 2
\* Calls per behaviour.
MaxOps == 3
\* f64::MANTISSA_DIGITS is 53; the model keeps this many significant bits.
MANTISSA_DIGITS == 5
\* f64::MAX_EXP is 1024: finite floats are below 2^MAX_EXP. Above 31, so
\* that every i32 is finite as a float, as in the source.
MAX_EXP == 32

\* ------------------------------------------------------------- constants
MAX_LENDING_POOL_RESERVES == 128

\* ------------------------------------------------------------- Option / Result
None == <<>>
Some(v) == <<v>>
is_some(o) == o # None
unwrap(o) == o[1]

OkRes == "Ok"
MathError == "MathError"
BankDepositCapacityExceeded == "BankDepositCapacityExceeded"

\* ------------------------------------------------------------- I80F48
RECURSIVE Pow2(_)
Pow2(n) == IF n = 0 THEN 1 ELSE 2 * Pow2(n - 1)

I80F48_MAX == Pow2(I80F48_BITS - 1) - 1
I80F48_MIN == 0 - Pow2(I80F48_BITS - 1)
I80F48_ZERO == 0
I80F48_ONE == Pow2(FRAC_NBITS)

fits(bits) == I80F48_MIN <= bits /\ bits <= I80F48_MAX

\* I80F48::from(u64) / u64.into(): lossless, the integer shifted into place.
from_u64(n) == n * Pow2(FRAC_NBITS)

checked_add(a, b) == IF fits(a + b) THEN Some(a + b) ELSE None

\* The exact product has 2 * FRAC_NBITS fractional bits; the result keeps
\* FRAC_NBITS of them (arithmetic shift right) and must fit the type.
checked_mul(a, b) ==
    LET wide == a * b
        r == wide \div Pow2(FRAC_NBITS)
    IN  IF fits(r) THEN Some(r) ELSE None

\* Integer division of the widened dividend: Rust's `/`, truncating toward
\* zero (TLA+'s \div rounds toward minus infinity).
int_div(n, d) ==
    LET an == IF n < 0 THEN 0 - n ELSE n
        ad == IF d < 0 THEN 0 - d ELSE d
        aq == an \div ad
    IN  IF (n < 0) = (d < 0) THEN aq ELSE 0 - aq

\* Mutant: a zero divisor answered with zero instead of None.
checked_div_zero_divisor(a, b) ==
    IF b = 0 THEN Some(0)
    ELSE LET q == int_div(a * Pow2(FRAC_NBITS), b)
         IN  IF fits(q) THEN Some(q) ELSE None

\* None on a zero divisor and on overflow; otherwise the dividend shifted
\* left by FRAC_NBITS and divided as integers.
checked_div(a, b) ==
    IF b = 0 THEN None
    ELSE LET q == int_div(a * Pow2(FRAC_NBITS), b)
         IN  IF fits(q) THEN Some(q) ELSE None

is_positive(a) == a > 0

\* ------------------------------------------------------------- f64
\* An f64 is sign, significand of MANTISSA_DIGITS bits and exponent; here the
\* pair <<m, e>> of value m * 2^e with m odd and |m| < 2^MANTISSA_DIGITS.
\* The values without such a pair are +0.0 <<0, 0>>, NaN <<0, 1>>, the two
\* infinities <<0, 2>>, <<0, 3>> and -0.0 <<0, 4>>. A finite value is below
\* 2^MAX_EXP; below 2^(MIN_EXP - 1) the values are the subnormals, multiples
\* of 2^(MIN_EXP - MANTISSA_DIGITS). +, - and / return the exact result
\* rounded to the nearest value, ties to even, an infinity on overflow.
Abs(x) == IF x < 0 THEN 0 - x ELSE x

\* f64::MIN_EXP is -1021 for f64::MAX_EXP 1024.
MIN_EXP == 3 - MAX_EXP

\* Exponent of the smallest subnormal (2^-1074 in f64).
MIN_SUBNORMAL_EXP == MIN_EXP - MANTISSA_DIGITS

F64_ZERO == <<0, 0>>
F64_ONE == <<1, 0>>
F64_NAN == <<0, 1>>
F64_INFINITY == <<0, 2>>
F64_NEG_INFINITY == <<0, 3>>
F64_NEG_ZERO == <<0, 4>>

is_nan(a) == a = F64_NAN
is_infinite(a) == a = F64_INFINITY \/ a = F64_NEG_INFINITY
is_finite(a) == ~is_nan(a) /\ ~is_infinite(a)
is_zero(a) == a = F64_ZERO \/ a = F64_NEG_ZERO

\* The sign bit of a value that is not NaN.
is_sign_negative(a) ==
    IF a[1] = 0 THEN a = F64_NEG_ZERO \/ a = F64_NEG_INFINITY ELSE a[1] < 0

signed_zero(neg) == IF neg THEN F64_NEG_ZERO ELSE F64_ZERO
signed_infinity(neg) == IF neg THEN F64_NEG_INFINITY ELSE F64_INFINITY

\* Number of bits of n >= 0.
bit_length(n) ==
    IF n >= Pow2(30) THEN 31
    ELSE CHOOSE k \in 0..30 : n < Pow2(k) /\ (k = 0 \/ Pow2(k - 1) <= n)

\* m * 2^e, m # 0, with the trailing zero bits of m moved into the exponent.
f64_norm(m, e) ==
    LET t == CHOOSE k \in 0..30 :
                 /\ Abs(m) % Pow2(k) = 0
                 /\ (k = 30 \/ Abs(m) % Pow2(k + 1) # 0)
    IN  <<(IF m < 0 THEN 0 - (Abs(m) \div Pow2(t)) ELSE m \div Pow2(t)), e + t>>

\* The float of sign neg and magnitude mag * 2^e, mag of at most
\* MANTISSA_DIGITS bits (or 2^MANTISSA_DIGITS) on the grid of the format:
\* a zero of that sign for mag = 0, an infinity from 2^MAX_EXP on.
f64_pack(neg, mag, e) ==
    IF mag = 0 THEN signed_zero(neg)
    ELSE IF bit_length(mag) + e > MAX_EXP THEN signed_infinity(neg)
    ELSE f64_norm(IF neg THEN 0 - mag ELSE mag, e)

\* The exponent of the unit in the last place of a value below 2^t:
\* MANTISSA_DIGITS bits below t, but not below the smallest subnormal.
quantum(t) ==
    IF t - MANTISSA_DIGITS > MIN_SUBNORMAL_EXP
    THEN t - MANTISSA_DIGITS ELSE MIN_SUBNORMAL_EXP

\* The value m * 2^e, m # 0 (plus, when sticky, a non-zero amount of
\* magnitude below 2^e and of the sign of m) rounded to the format; a sticky
\* m has more than MANTISSA_DIGITS bits.
f64_round(m, sticky, e) ==
    LET a == Abs(m)
        L == bit_length(a)
        sh == quantum(L + e) - e
    IN  IF sh <= 0 THEN f64_pack(m < 0, a, e)
        ELSE IF sh > L THEN signed_zero(m < 0)
        ELSE LET q == a \div Pow2(sh)
                 r == a % Pow2(sh)
                 half == Pow2(sh - 1)
                 up == r > half \/ (r = half /\ (sticky \/ q % 2 = 1))
             IN  f64_pack(m < 0, IF up THEN q + 1 ELSE q, e + sh)

f64_neg(a) ==
    IF is_nan(a) THEN F64_NAN
    ELSE IF a[1] = 0 THEN (IF is_zero(a) THEN signed_zero(a = F64_ZERO)
                           ELSE signed_infinity(a = F64_INFINITY))
    ELSE <<0 - a[1], a[2]>>

\* The exponent t with 2^(t-1) <= |a| < 2^t, for a finite and not zero.
top(a) == bit_length(Abs(a[1])) + a[2]

\* big + small when small lies below a quarter of the last place of big:
\* big with two more bits, and the small one as the sticky amount.
add_far(big, small) ==
    LET e == top(big) - MANTISSA_DIGITS - 2
        m == Abs(big[1]) * Pow2(big[2] - e)
        mag == IF (big[1] < 0) = (small[1] < 0) THEN m ELSE m - 1
    IN  f64_round(IF big[1] < 0 THEN 0 - mag ELSE mag, TRUE, e)

\* a + b when the exponents are close: the exact sum, rounded; an exact
\* zero sum is +0.0.
add_near(a, b) ==
    LET e == IF a[2] < b[2] THEN a[2] ELSE b[2]
        s == a[1] * Pow2(a[2] - e) + b[1] * Pow2(b[2] - e)
    IN  IF s = 0 THEN F64_ZERO ELSE f64_round(s, FALSE, e)

f64_add(a, b) ==
    IF is_nan(a) \/ is_nan(b) THEN F64_NAN
    ELSE IF is_infinite(a) THEN (IF is_infinite(b) /\ a # b THEN F64_NAN ELSE a)
    ELSE IF is_infinite(b) THEN b
    ELSE IF is_zero(a) THEN (IF is_zero(b) /\ a # b THEN F64_ZERO ELSE b)
    ELSE IF is_zero(b) THEN a
    ELSE IF top(a) - top(b) > MANTISSA_DIGITS + 2 THEN add_far(a, b)
    ELSE IF top(b) - top(a) > MANTISSA_DIGITS + 2 THEN add_far(b, a)
    ELSE add_near(a, b)

f64_sub(a, b) == f64_add(a, f64_neg(b))

\* a / b for finite non-zero a and b: the quotient of the significands
\* taken to 2 * MANTISSA_DIGITS + 1 extra bits, the remainder kept as the
\* sticky bit.
div_finite(a, b) ==
    LET S == 2 * MANTISSA_DIGITS + 1
        n == Abs(a[1]) * Pow2(S)
        d == Abs(b[1])
        q == n \div d
    IN  f64_round(IF (a[1] < 0) # (b[1] < 0) THEN 0 - q ELSE q,
                  n % d # 0, a[2] - b[2] - S)

\* a / b. The sign is the product of the signs; x / 0. is an infinity,
\* 0. / 0. and inf / inf are NaN.
f64_div(a, b) ==
    IF is_nan(a) \/ is_nan(b) THEN F64_NAN
    ELSE IF is_infinite(a)
         THEN (IF is_infinite(b) THEN F64_NAN
               ELSE signed_infinity(is_sign_negative(a) # is_sign_negative(b)))
    ELSE IF is_infinite(b)
         THEN signed_zero(is_sign_negative(a) # is_sign_negative(b))
    ELSE IF is_zero(b)
         THEN (IF is_zero(a) THEN F64_NAN
               ELSE signed_infinity(is_sign_negative(a) # is_sign_negative(b)))
    ELSE IF is_zero(a)
         THEN signed_zero(is_sign_negative(a) # is_sign_negative(b))
    ELSE div_finite(a, b)

\* |a| < |b| for finite non-zero a and b.
mag_lt(a, b) ==
    IF top(a) # top(b) THEN top(a) < top(b)
    ELSE LET e == IF a[2] < b[2] THEN a[2] ELSE b[2]
         IN  Abs(a[1]) * Pow2(a[2] - e) < Abs(b[1]) * Pow2(b[2] - e)

\* a < b: false when either is NaN; the two zeros are equal.
f64_lt(a, b) ==
    IF is_nan(a) \/ is_nan(b) THEN FALSE
    ELSE IF a = F64_INFINITY \/ b = F64_NEG_INFINITY THEN FALSE
    ELSE IF a = F64_NEG_INFINITY \/ b = F64_INFINITY THEN TRUE
    ELSE IF is_zero(a) THEN ~is_zero(b) /\ b[1] > 0
    ELSE IF is_zero(b) THEN a[1] < 0
    ELSE IF (a[1] < 0) # (b[1] < 0) THEN a[1] < 0
    ELSE IF a[1] > 0 THEN mag_lt(a, b)
    ELSE mag_lt(b, a)

\* ---- f64::powf, the platform's pow(x, y).
\* The exponent y = <<n, e>> as a fraction k / 2^s in lowest terms, with its
\* sign apart: the numerator k > 0 and the binary logarithm s of the
\* denominator.
pow_k(y) == IF y[2] >= 0 THEN Abs(y[1]) * Pow2(y[2]) ELSE Abs(y[1])
pow_s(y) == IF y[2] >= 0 THEN 0 ELSE 0 - y[2]

\* A finite y is an integer when its exponent is not negative, and odd when
\* it is zero.
is_integer(y) == is_finite(y) /\ (is_zero(y) \/ y[2] >= 0)
is_odd_integer(y) == is_finite(y) /\ ~is_zero(y) /\ y[2] = 0

\* |x| > 1, for x not NaN.
mag_gt_one(x) ==
    \/ is_infinite(x)
    \/ /\ ~is_zero(x)
       /\ (top(x) > 1 \/ (top(x) = 1 /\ Abs(x[1]) # 1))

\* An exponent so large that |x|^|y| lies outside the format for every
\* finite |x| # 1: |log2 |x|| is at least 2^-MANTISSA_DIGITS.
pow_huge(y) ==
    /\ y[2] >= 0
    /\ \/ top(y) > 20
       \/ pow_k(y) >= Pow2(MANTISSA_DIGITS) * (MAX_EXP - MIN_SUBNORMAL_EXP + 2)

\* b^k for b >= 2, or cap + 1 when the power is larger than cap.
RECURSIVE capped_pow(_, _, _)
capped_pow(b, k, cap) ==
    IF k = 0 THEN 1
    ELSE IF k >= bit_length(cap) THEN cap + 1
    ELSE IF capped_pow(b, k - 1, cap) > cap \div b THEN cap + 1
    ELSE capped_pow(b, k - 1, cap) * b

\* The integer r with r^(2^s) = X for an odd X > 1, or 0 when X is no such
\* power: 2^(2^s) is larger than any significand from s = MANTISSA_DIGITS on.
pow_root(X, s) ==
    IF s = 0 THEN X
    ELSE IF s >= MANTISSA_DIGITS THEN 0
    ELSE IF \E r \in 2..X : capped_pow(r, Pow2(s), X) = X
         THEN CHOOSE r \in 2..X : capped_pow(r, Pow2(s), X) = X
    ELSE 0

\* |x|^y is a dyadic rational of at most MANTISSA_DIGITS bits, where
\* |x| = X * 2^f with X odd and y = +-k / 2^s:
\*   X = 1: 2^(f * y), when f * y is an integer;
\*   X > 1: for y > 0 only, (r^k) * 2^(f * y) when X = r^(2^s), 2^s divides
\*          f and r^k has at most MANTISSA_DIGITS bits.
\* Every other power is irrational or has more bits, and is no float.
pow_is_exact(X, f, k, s, pos) ==
    IF X = 1 THEN s <= 30 /\ (f * k) % Pow2(s) = 0
    ELSE /\ pos
         /\ s < MANTISSA_DIGITS
         /\ f % Pow2(s) = 0
         /\ pow_root(X, s) # 0
         /\ capped_pow(pow_root(X, s), k, Pow2(MANTISSA_DIGITS) - 1)
                < Pow2(MANTISSA_DIGITS)

\* pow is not correctly rounded: of a power that is not a float it returns
\* one of the two floats next to it, and which one depends on the libm.
\* lo * 2^e is the exact power rounded toward zero and `exact` says that it
\* is the power; `up` is the libm's choice (TRUE: the float of larger
\* magnitude). Below the subnormal grid's first half the result is zero.
pow_faithful(neg, lo, exact, e, up) ==
    IF e >= MIN_SUBNORMAL_EXP
    THEN f64_pack(neg, IF up /\ ~exact THEN lo + 1 ELSE lo, e)
    ELSE LET sh == MIN_SUBNORMAL_EXP - e IN
         IF sh > MANTISSA_DIGITS THEN signed_zero(neg)
         ELSE LET q == lo \div Pow2(sh)
                  on_grid == exact /\ lo % Pow2(sh) = 0
              IN  f64_pack(neg, IF up /\ ~on_grid THEN q + 1 ELSE q,
                           MIN_SUBNORMAL_EXP)

\* The exact power v * 2^e, v of at most MANTISSA_DIGITS bits, with
\* its significand moved to the top bit.
pow_exact_value(v, e, neg, up) ==
    pow_faithful(neg, v * Pow2(MANTISSA_DIGITS - bit_length(v)), TRUE,
                 e - (MANTISSA_DIGITS - bit_length(v)), up)

\* The power of pow_is_exact.
pow_exact(X, f, k, s, pos, neg, up) ==
    IF X = 1
    THEN pow_exact_value(1, IF pos THEN (f * k) \div Pow2(s)
                            ELSE 0 - ((f * k) \div Pow2(s)), neg, up)
    ELSE pow_exact_value(capped_pow(pow_root(X, s), k,
                                    Pow2(MANTISSA_DIGITS) - 1),
                         (f \div Pow2(s)) * k, neg, up)

\* The other powers go through the binary logarithm, as in a libm, in
\* fixed point with 30 fractional bits: log2_one is 1.
log2_one == Pow2(30)

\* floor(2^30 * (log2 n - floor(log2 n))) for the odd n = 3, 5, .., 63, the
\* odd significands of up to 6 bits.
log2_table ==
    <<
       628098702, 345667659, 866890746, 182455580,
       493310944, 752091420, 973766362, 93912510,
       266210140, 421247625, 562170369, 691335319,
       810554283, 921250078, 1024560486, 47667822,
       138816582, 224898838, 306448299, 383918541,
       457698295, 528123240, 595485245, 660039669,
       722011213, 781598636, 838978604, 894308843,
       947730757, 999371606, 1049346327
    >>

\* The odd part of m > 0.
odd_part(m) == f64_norm(m, 0)[1]

\* The fraction of log2 m rounded down to the fixed point: exact for a
\* power of two, and below the (irrational) logarithm otherwise.
log2_frac(m) ==
    IF odd_part(m) = 1 THEN 0 ELSE log2_table[(odd_part(m) - 1) \div 2]

\* |log2 |x|| = T + lam, 0 <= lam < 1, as <<T, lam rounded down>>, for a
\* finite x, |x| not 0 or 1: log2 |x| is top(x) - 1 plus the fraction of the
\* logarithm of the significand.
log2_abs(x) ==
    IF Abs(x[1]) = 1 THEN <<Abs(top(x) - 1), 0>>
    ELSE IF top(x) >= 1 THEN <<top(x) - 1, log2_frac(Abs(x[1]))>>
    ELSE <<0 - top(x), log2_one - 1 - log2_frac(Abs(x[1]))>>

\* k * (T + lam) / 2^s rounded down, as <<integer part, fraction>>; the
\* product is taken in two halves of 15 bits to stay inside 32 bits.
mul_log2(k, s, T, lam) ==
    LET c == k * (lam % Pow2(15))
        h == k * (lam \div Pow2(15)) + c \div Pow2(15)
        I == k * T + h \div Pow2(15)
        F == (h % Pow2(15)) * Pow2(15) + (c % Pow2(15))
    IN  IF s > 60 THEN <<0, 0>>
        ELSE IF s > 30 THEN <<0, I \div Pow2(s - 30)>>
        ELSE <<I \div Pow2(s), (I % Pow2(s)) * Pow2(30 - s) + F \div Pow2(s)>>

\* The error of mul_log2 in units of the last place: one for the table,
\* scaled by k / 2^s, and one for each rounding.
mul_log2_error(k, s) == IF s > 30 THEN 2 ELSE k \div Pow2(s) + 2

\* The fraction of log2 m is surely at most phi, for phi >= P.
log2_le(m, P) == odd_part(m) = 1 \/ log2_frac(m) < P

\* The fraction of log2 m is surely above phi, for phi <= P.
log2_gt(m, P) == odd_part(m) # 1 /\ log2_frac(m) >= P

\* The largest m of MANTISSA_DIGITS bits with log2 m - (MANTISSA_DIGITS - 1)
\* at most phi, where P <= phi <= P + D in units of the last place. There is
\* no such m to choose when the fixed point cannot tell.
pow_floor(P, D) ==
    CHOOSE m \in Pow2(MANTISSA_DIGITS - 1)..(Pow2(MANTISSA_DIGITS) - 1) :
        /\ P >= 0 /\ P + D <= log2_one
        /\ log2_le(m, P)
        /\ (m + 1 = Pow2(MANTISSA_DIGITS) \/ log2_gt(m + 1, P + D))

\* 2^(u + phi), u an integer and P <= phi <= P + D: not a float.
pow_round(u, P, D, neg, up) ==
    pow_faithful(neg, pow_floor(P, D), FALSE, u - (MANTISSA_DIGITS - 1), up)

\* 2^w or 2^-w, for I + F <= w <= I + F + D and w not an integer.
pow_exp2(I, F, D, pos, neg, up) ==
    IF pos THEN pow_round(I, F, D, neg, up)
    ELSE pow_round(0 - I - 1, log2_one - 1 - (F + D), D + 1, neg, up)

\* |x|^y for finite x, |x| not 0 or 1, and finite y # 0 that is not huge:
\* the exact power when it is a float, and else 2^(y * log2 |x|).
pow_finite(x, y, neg, up) ==
    IF pow_is_exact(Abs(x[1]), x[2], pow_k(y), pow_s(y), y[1] > 0)
    THEN pow_exact(Abs(x[1]), x[2], pow_k(y), pow_s(y), y[1] > 0, neg, up)
    ELSE pow_exp2(mul_log2(pow_k(y), pow_s(y),
                           log2_abs(x)[1], log2_abs(x)[2])[1],
                  mul_log2(pow_k(y), pow_s(y),
                           log2_abs(x)[1], log2_abs(x)[2])[2],
                  mul_log2_error(pow_k(y), pow_s(y)),
                  mag_gt_one(x) = (y[1] > 0), neg, up)

\* |x|^y with the sign neg, for finite x, |x| not 0 or 1, and finite y # 0.
pow_magnitude(x, y, neg, up) ==
    IF pow_huge(y)
    THEN (IF mag_gt_one(x) = (y[1] > 0) THEN signed_infinity(neg)
          ELSE signed_zero(neg))
    ELSE pow_finite(x, y, neg, up)

\* x.powf(y). In the order of pow (C99 F.9.4.4):
\*   pow(x, +-0) and pow(1, y) are 1, also for a NaN;
\*   otherwise a NaN gives NaN;
\*   an infinite y gives 1 for x = -1, else inf or +0 by |x| > 1 and the sign;
\*   a zero or infinite x gives zero or infinity by the sign of y, with the
\*   sign of x for an odd integer y;
\*   a negative finite x with a y that is no integer gives NaN;
\*   the rest is |x|^y with a minus sign for negative x and odd y.
f64_powf(x, y, up) ==
    IF ~is_nan(y) /\ is_zero(y) THEN F64_ONE
    ELSE IF x = F64_ONE THEN F64_ONE
    ELSE IF is_nan(x) \/ is_nan(y) THEN F64_NAN
    ELSE IF is_infinite(y)
         THEN (IF x = f64_neg(F64_ONE) THEN F64_ONE
               ELSE IF mag_gt_one(x) = (y = F64_INFINITY) THEN F64_INFINITY
               ELSE F64_ZERO)
    ELSE IF is_zero(x)
         THEN (IF y[1] < 0
               THEN signed_infinity(is_odd_integer(y) /\ is_sign_negative(x))
               ELSE signed_zero(is_odd_integer(y) /\ is_sign_negative(x)))
    ELSE IF is_infinite(x)
         THEN (IF y[1] < 0
               THEN signed_zero(is_odd_integer(y) /\ is_sign_negative(x))
               ELSE signed_infinity(is_odd_integer(y) /\ is_sign_negative(x)))
    ELSE IF x[1] < 0 /\ ~is_integer(y) THEN F64_NAN
    ELSE IF Abs(x[1]) = 1 /\ x[2] = 0
         THEN (IF is_odd_integer(y) THEN x ELSE F64_ONE)
    ELSE pow_magnitude(x, y, x[1] < 0 /\ is_odd_integer(y), up)

\* I80F48::to_num::<f64>(): the bits as a float, rounded to nearest.
to_num_f64(bits) ==
    IF bits = 0 THEN F64_ZERO ELSE f64_round(bits, FALSE, 0 - FRAC_NBITS)

\* ------------------------------------------------------------- WrappedI80F48
\* impl From<I80F48> for WrappedI80F48: value = i.to_bits()
wrap(i) == [value |-> i]
\* impl From<WrappedI80F48> for I80F48: from_bits(w.value)
into_I80F48(w) == w.value

\* ------------------------------------------------------------- Bank
\* MarginfiResult<I80F48>: Ok(value) or Err(error).
Ok(v) == [err |-> OkRes, val |-> v]
Err(e) == [err |-> e, val |-> 0]

\* x.ok_or_else(math_error!()): Some(v) -> Ok(v), None -> Err(MathError)
ok_or_math_error(o) == IF is_some(o) THEN Ok(unwrap(o)) ELSE Err(MathError)

\* Mutant: the share values left at their Default (zero).
Bank_new_default_values(config, mint_pk, liquidity_vault, insurance_vault, fee_vault) ==
    [ mint |-> mint_pk,
      deposit_share_value |-> I80F48_ZERO,
      liability_share_value |-> I80F48_ZERO,
      liquidity_vault |-> liquidity_vault,
      insurance_vault |-> insurance_vault,
      fee_vault |-> fee_vault,
      config |-> config,
      total_borrow_shares |-> I80F48_ZERO,
      total_deposit_shares |-> I80F48_ZERO ]

Bank_new(config, mint_pk, liquidity_vault, insurance_vault, fee_vault) ==
    [ mint |-> mint_pk,
      deposit_share_value |-> I80F48_ONE,
      liability_share_value |-> I80F48_ONE,
      liquidity_vault |-> liquidity_vault,
      insurance_vault |-> insurance_vault,
      fee_vault |-> fee_vault,
      config |-> config,
      total_borrow_shares |-> I80F48_ZERO,
      total_deposit_shares |-> I80F48_ZERO ]

get_liability_value(self, shares) ==
    ok_or_math_error(checked_mul(shares, self.liability_share_value))

get_deposit_value(self, shares) ==
    ok_or_math_error(checked_mul(shares, self.deposit_share_value))

get_liability_shares(self, value) ==
    ok_or_math_error(checked_div(value, self.liability_share_value))

\* Mutant: the deposit conversion divides by the liability share value.
get_deposit_shares_liability_rate(self, value) ==
    ok_or_math_error(checked_div(value, self.liability_share_value))

get_deposit_shares(self, value) ==
    ok_or_math_error(checked_div(value, self.deposit_share_value))

\* Mutant: the comparison of the capacity test turned round.
capacity_check_flipped(total_shares_value, max_deposit_capacity) ==
    total_shares_value > max_deposit_capacity

\* The capacity test of check!(total_shares_value < max_deposit_capacity, ..).
capacity_check(total_shares_value, max_deposit_capacity) ==
    total_shares_value < max_deposit_capacity

\* Mutant: every delta takes the capacity branch.
capacity_checked_always(shares) == TRUE

\* Which deltas take the capacity branch: shares.is_positive().
capacity_checked(shares) == is_positive(shares)

\* Mutant: the capacity test made before the total is assigned, so that a
\* failing call leaves the Bank as it was.
change_deposit_shares_validate_first(self, shares) ==
    LET sum == checked_add(self.total_deposit_shares, shares) IN
    IF ~is_some(sum)
    THEN [self |-> self, res |-> MathError]
    ELSE
      LET s1 == [self EXCEPT !.total_deposit_shares = unwrap(sum)]
          total_shares_value == get_deposit_value(s1, s1.total_deposit_shares)
          max_deposit_capacity ==
              get_deposit_value(s1, from_u64(s1.config.max_capacity))
      IN  IF ~is_positive(shares) THEN [self |-> s1, res |-> OkRes]
          ELSE IF total_shares_value.err # OkRes
          THEN [self |-> self, res |-> total_shares_value.err]
          ELSE IF max_deposit_capacity.err # OkRes
          THEN [self |-> self, res |-> max_deposit_capacity.err]
          ELSE IF ~(total_shares_value.val < max_deposit_capacity.val)
          THEN [self |-> self, res |-> BankDepositCapacityExceeded]
          ELSE [self |-> s1, res |-> OkRes]

\* Bank::change_deposit_shares: the Bank it leaves and the result it returns.
\* The `?` on the checked_add returns before the assignment; the later
\* returns (the two `?` of get_deposit_value and the check!) come after it.
change_deposit_shares(self, shares) ==
    LET sum == checked_add(self.total_deposit_shares, shares) IN
    IF ~is_some(sum)
    THEN [self |-> self, res |-> MathError]
    ELSE
      LET s1 == [self EXCEPT !.total_deposit_shares = unwrap(sum)] IN
      IF capacity_checked(shares)
      THEN
        LET total_shares_value == get_deposit_value(s1, s1.total_deposit_shares)
            max_deposit_capacity ==
                get_deposit_value(s1, from_u64(s1.config.max_capacity))
        IN  IF total_shares_value.err # OkRes
            THEN [self |-> s1, res |-> total_shares_value.err]
            ELSE IF max_deposit_capacity.err # OkRes
            THEN [self |-> s1, res |-> max_deposit_capacity.err]
            ELSE IF ~capacity_check(total_shares_value.val, max_deposit_capacity.val)
            THEN [self |-> s1, res |-> BankDepositCapacityExceeded]
            ELSE [self |-> s1, res |-> OkRes]
      ELSE [self |-> s1, res |-> OkRes]

\* Mutant: an overflowing addition saturates the total before the error is
\* returned.
change_liability_shares_saturating(self, shares) ==
    LET sum == checked_add(self.total_borrow_shares, shares) IN
    IF ~is_some(sum)
    THEN [self |-> [self EXCEPT !.total_borrow_shares =
                        IF shares > 0 THEN I80F48_MAX ELSE I80F48_MIN],
          res |-> MathError]
    ELSE [self |-> [self EXCEPT !.total_borrow_shares = unwrap(sum)], res |-> OkRes]

\* Mutant: borrows capacity-checked the way deposits are.
change_liability_shares_capped(self, shares) ==
    LET sum == checked_add(self.total_borrow_shares, shares) IN
    IF ~is_some(sum)
    THEN [self |-> self, res |-> MathError]
    ELSE
      LET s1 == [self EXCEPT !.total_borrow_shares = unwrap(sum)] IN
      IF is_positive(shares)
            /\ ~(s1.total_borrow_shares < from_u64(s1.config.max_capacity))
      THEN [self |-> s1, res |-> BankDepositCapacityExceeded]
      ELSE [self |-> s1, res |-> OkRes]

\* Bank::change_liability_shares
change_liability_shares(self, shares) ==
    LET sum == checked_add(self.total_borrow_shares, shares) IN
    IF ~is_some(sum)
    THEN [self |-> self, res |-> MathError]
    ELSE [self |-> [self EXCEPT !.total_borrow_shares = unwrap(sum)], res |-> OkRes]

\* set_if_some!(attr, opt)
set_if_some(attr, opt) == IF is_some(opt) THEN unwrap(opt) ELSE attr

\* Mutant: liability_weight_maint set from the patch's liability_weight_init.
configure_config_slip(c, config) ==
    [ deposit_weight_init |->
          set_if_some(c.deposit_weight_init, config.deposit_weight_init),
      deposit_weight_maint |->
          set_if_some(c.deposit_weight_maint, config.deposit_weight_maint),
      liability_weight_init |->
          set_if_some(c.liability_weight_init, config.liability_weight_init),
      liability_weight_maint |->
          set_if_some(c.liability_weight_maint, config.liability_weight_init),
      max_capacity |-> set_if_some(c.max_capacity, config.max_capacity),
      pyth_oracle |-> set_if_some(c.pyth_oracle, config.pyth_oracle) ]

\* The BankConfig that Bank::configure leaves.
configure_config(c, config) ==
    [ deposit_weight_init |->
          set_if_some(c.deposit_weight_init, config.deposit_weight_init),
      deposit_weight_maint |->
          set_if_some(c.deposit_weight_maint, config.deposit_weight_maint),
      liability_weight_init |->
          set_if_some(c.liability_weight_init, config.liability_weight_init),
      liability_weight_maint |->
          set_if_some(c.liability_weight_maint, config.liability_weight_maint),
      max_capacity |-> set_if_some(c.max_capacity, config.max_capacity),
      pyth_oracle |-> set_if_some(c.pyth_oracle, config.pyth_oracle) ]

\* Bank::configure
Bank_configure(self, config) ==
    [self |-> [self EXCEPT !.config = configure_config(self.config, config)],
     res |-> OkRes]

\* Mutant: the liability weights of the two tiers exchanged.
get_weights_swapped(self, weight_type) ==
    IF weight_type = "Initial"
    THEN <<self.deposit_weight_init.value, self.liability_weight_maint.value>>
    ELSE <<self.deposit_weight_maint.value, self.liability_weight_init.value>>

\* BankConfig::get_weights
get_weights(self, weight_type) ==
    IF weight_type = "Initial"
    THEN <<into_I80F48(self.deposit_weight_init),
           into_I80F48(self.liability_weight_init)>>
    ELSE <<into_I80F48(self.deposit_weight_maint),
           into_I80F48(self.liability_weight_maint)>>

\* ------------------------------------------------------------- MarginfiGroup
\* LendingPool::default(): every slot None.
LendingPool_default == [banks |-> [i \in 1..MAX_LENDING_POOL_RESERVES |-> None]]

\* The slots a scan of the pool visits, in order.
Slots == 1..MAX_LENDING_POOL_RESERVES

\* Mutant: the scan keeps the last matching slot instead of the first.
iter_find_last(banks, mint_pk) ==
    LET accepted == {i \in Slots :
                        is_some(banks[i]) /\ unwrap(banks[i]).mint = mint_pk}
    IN  IF accepted = {} THEN 0
        ELSE CHOOSE i \in accepted : \A j \in accepted : j <= i

\* self.banks.iter().find(|reserve| reserve.is_some() &&
\*     reserve.as_ref().unwrap().mint.eq(mint_pk)): the first slot, in
\* iteration order, that the closure accepts; 0 when the iterator ends
\* without one.
iter_find(banks, mint_pk) ==
    LET accepted == {i \in Slots :
                        is_some(banks[i]) /\ unwrap(banks[i]).mint = mint_pk}
    IN  IF accepted = {} THEN 0
        ELSE CHOOSE i \in accepted : \A j \in accepted : i <= j

\* LendingPool::get_bank: the slot of the reference it returns (0 for None).
get_bank_slot(self, mint_pk) == iter_find(self.banks, mint_pk)

\* LendingPool::get_bank: .map(|reserve| reserve.as_ref().unwrap())
get_bank(self, mint_pk) ==
    LET i == get_bank_slot(self, mint_pk) IN
    IF i = 0 THEN None ELSE Some(unwrap(self.banks[i]))

\* Mutant: the mutable scan accepts a slot without comparing its mint.
iter_mut_find_any(banks, mint_pk) ==
    LET accepted == {i \in Slots : is_some(banks[i])}
    IN  IF accepted = {} THEN 0
        ELSE CHOOSE i \in accepted : \A j \in accepted : i <= j

\* self.banks.iter_mut().find(..) of get_bank_mut: as iter_find, over
\* exclusive references.
iter_mut_find(banks, mint_pk) ==
    LET accepted == {i \in Slots :
                        is_some(banks[i]) /\ unwrap(banks[i]).mint = mint_pk}
    IN  IF accepted = {} THEN 0
        ELSE CHOOSE i \in accepted : \A j \in accepted : i <= j

\* LendingPool::get_bank_mut: the exclusive reference it returns is the slot
\* it points into (0 for None).
get_bank_mut(self, mint_pk) == iter_mut_find(self.banks, mint_pk)

\* Writing through the &mut Bank of slot i.
store_bank(self, i, b) == [self EXCEPT !.banks[i] = Some(b)]

\* Mutant: only the admin is assigned, the rest of the group is kept.
set_initial_configuration_keep_pool(self, admin_pk) ==
    [self EXCEPT !.admin = admin_pk]

\* MarginfiGroup::set_initial_configuration:
\* *self = MarginfiGroup { admin: admin_pk, ..Default::default() }
set_initial_configuration(self, admin_pk) ==
    [lending_pool |-> LendingPool_default, admin |-> admin_pk]

\* MarginfiGroup::configure
MarginfiGroup_configure(self, config) ==
    [self |-> [self EXCEPT !.admin = set_if_some(self.admin, config.admin)],
     res |-> OkRes]

\* ------------------------------------------------------------- inputs
Pubkeys == 0..NumKeys
Pubkey_default == 0

WeightTypes == {"Initial", "Maintenance"}

\* Share deltas, as raw bits: zero, the smallest positive value, whole
\* amounts of either sign, and the two ends of the type.
Deltas ==
    { I80F48_ZERO, 1, from_u64(500), from_u64(600), 0 - from_u64(600),
      I80F48_MAX, I80F48_MIN }

BorrowDeltas ==
    { 1, from_u64(600), 0 - from_u64(600), I80F48_MAX, I80F48_MIN }

\* The BankConfig a Bank is created with.
InitConfig ==
    [ deposit_weight_init |-> wrap(I80F48_ONE \div 2),
      deposit_weight_maint |-> wrap(I80F48_ONE - I80F48_ONE \div 4),
      liability_weight_init |-> wrap(I80F48_ONE + I80F48_ONE \div 2),
      liability_weight_maint |-> wrap(I80F48_ONE + I80F48_ONE \div 4),
      max_capacity |-> 1000,
      pyth_oracle |-> 1 ]

\* BankConfigOpt values.  A present field carries a value its live field does
\* not start with.
ConfigFields ==
    { "deposit_weight_init", "deposit_weight_maint", "liability_weight_init",
      "liability_weight_maint", "max_capacity", "pyth_oracle" }

InitTier == {"deposit_weight_init", "liability_weight_init"}
MaintTier == {"deposit_weight_maint", "liability_weight_maint"}

PatchValue ==
    [ deposit_weight_init |-> wrap(I80F48_ONE \div 4),
      deposit_weight_maint |-> wrap(I80F48_ONE \div 2 + I80F48_ONE \div 8),
      liability_weight_init |-> wrap(2 * I80F48_ONE),
      liability_weight_maint |-> wrap(2 * I80F48_ONE - I80F48_ONE \div 4),
      max_capacity |-> 500,
      pyth_oracle |-> NumKeys ]

BankConfigOpt_of(present) ==
    [ deposit_weight_init |->
          IF "deposit_weight_init" \in present
          THEN Some(PatchValue.deposit_weight_init) ELSE None,
      deposit_weight_maint |->
          IF "deposit_weight_maint" \in present
          THEN Some(PatchValue.deposit_weight_maint) ELSE None,
      liability_weight_init |->
          IF "liability_weight_init" \in present
          THEN Some(PatchValue.liability_weight_init) ELSE None,
      liability_weight_maint |->
          IF "liability_weight_maint" \in present
          THEN Some(PatchValue.liability_weight_maint) ELSE None,
      max_capacity |->
          IF "max_capacity" \in present
          THEN Some(PatchValue.max_capacity) ELSE None,
      pyth_oracle |->
          IF "pyth_oracle" \in present
          THEN Some(PatchValue.pyth_oracle) ELSE None ]

\* The patches tried: all absent, each field alone, each tier's two weights,
\* all present.
PatchShapes ==
    {{}} \cup {{f} : f \in ConfigFields} \cup {InitTier, MaintTier, ConfigFields}

BankConfigOpts == {BankConfigOpt_of(present) : present \in PatchShapes}

BankConfigOpt_none == BankConfigOpt_of({})

Opt(S) == {None} \cup {Some(v) : v \in S}

GroupConfigs == [admin : Opt({Pubkey_default, NumKeys})]
GroupConfig_none == [admin |-> None]

\* Lending pools a group can hold: the default pool, and a pool whose first
\* and third slots were populated (with distinct mints) by the provisioning
\* layer.
InitPools ==
    { LendingPool_default,
      [banks |-> [i \in 1..MAX_LENDING_POOL_RESERVES |->
          IF i = 1 THEN Some(Bank_new(InitConfig, 1, 1, 1, 1))
          ELSE IF i = 3 THEN Some(Bank_new(InitConfig, NumKeys, 1, 1, 1))
          ELSE None]] }

\* ------------------------------------------------------------- state
VARIABLES
    bank,       \* the Bank under test
    group,      \* the MarginfiGroup
    call,       \* the last call: operation, arguments, result
    old_bank,   \* bank before the last call
    old_group,  \* group before the last call
    nops        \* calls made

vars == <<bank, group, call, old_bank, old_group, nops>>

NoCall ==
    [ op |-> "new", shares |-> 0, bank_config |-> BankConfigOpt_none,
      group_config |-> GroupConfig_none, weight_type |-> "Initial",
      res |-> OkRes, weights |-> <<0, 0>>,
      mint_pk |-> 0, admin_pk |-> 0, slot |-> 0, found |-> None,
      out |-> Ok(0), back |-> Ok(0),
      apr |-> F64_ZERO, periods |-> F64_ONE, apy |-> F64_ZERO,
      input |-> <<>>, libm |-> <<>>, info |-> <<>> ]

Init ==
    /\ bank = Bank_new(InitConfig, 1, 1, 1, 1)
    /\ \E pool \in InitPools :
          group = [lending_pool |-> pool, admin |-> 1]
    /\ call = NoCall
    /\ old_bank = bank
    /\ old_group = group
    /\ nops = 0

Step ==
    /\ nops < MaxOps
    /\ nops' = nops + 1
    /\ old_bank' = bank
    /\ old_group' = group

ChangeDepositShares ==
    \E shares \in Deltas :
        LET r == change_deposit_shares(bank, shares) IN
        /\ Step
        /\ bank' = r.self
        /\ call' = [NoCall EXCEPT !.op = "change_deposit_shares",
                                  !.shares = shares, !.res = r.res]
        /\ UNCHANGED group

ChangeLiabilityShares ==
    \E shares \in BorrowDeltas :
        LET r == change_liability_shares(bank, shares) IN
        /\ Step
        /\ bank' = r.self
        /\ call' = [NoCall EXCEPT !.op = "change_liability_shares",
                                  !.shares = shares, !.res = r.res]
        /\ UNCHANGED group

BankConfigure ==
    \E config \in BankConfigOpts :
        LET r == Bank_configure(bank, config) IN
        /\ Step
        /\ bank' = r.self
        /\ call' = [NoCall EXCEPT !.op = "Bank::configure",
                                  !.bank_config = config, !.res = r.res]
        /\ UNCHANGED group

GetWeights ==
    \E weight_type \in WeightTypes :
        /\ Step
        /\ call' = [NoCall EXCEPT !.op = "get_weights",
                                  !.weight_type = weight_type,
                                  !.weights = get_weights(bank.config, weight_type)]
        /\ UNCHANGED <<bank, group>>

GroupConfigure ==
    \E config \in GroupConfigs :
        LET r == MarginfiGroup_configure(group, config) IN
        /\ Step
        /\ group' = r.self
        /\ call' = [NoCall EXCEPT !.op = "MarginfiGroup::configure",
                                  !.group_config = config, !.res = r.res]
        /\ UNCHANGED bank

Next ==
    \/ ChangeDepositShares
    \/ ChangeLiabilityShares
    \/ BankConfigure
    \/ GetWeights
    \/ GroupConfigure

Spec == Init /\ [][Next]_vars

\* ------------------------------------------------------------- lending pool
\* The pools looked into: those of InitPools, a pool with an empty first
\* slot and the same mint in two slots (whose Banks differ in their vaults),
\* and a pool with all slots populated, slot i holding mint i.
DuplicatePool ==
    [banks |-> [i \in 1..MAX_LENDING_POOL_RESERVES |->
        IF i = 2 THEN Some(Bank_new(InitConfig, 1, 1, 1, 1))
        ELSE IF i = 4 THEN Some(Bank_new(InitConfig, NumKeys, 1, 1, 1))
        ELSE IF i = 5 THEN Some(Bank_new(InitConfig, 1, 2, 2, 2))
        ELSE None]]

FullPool ==
    [banks |-> [i \in 1..MAX_LENDING_POOL_RESERVES |->
        Some(Bank_new(InitConfig, i, 1, 1, 1))]]

PoolStates == InitPools \cup {DuplicatePool, FullPool}

\* Mints looked up: registered ones, the last slot's, and one no pool holds.
LookupKeys ==
    {1, NumKeys, MAX_LENDING_POOL_RESERVES, MAX_LENDING_POOL_RESERVES + 1}

HandleDeltas == {from_u64(600), 0 - from_u64(600)}
HandlePatches == {BankConfigOpt_of({"max_capacity"})}

InitPool ==
    /\ bank = Bank_new(InitConfig, 1, 1, 1, 1)
    /\ \E pool \in PoolStates :
          group = [lending_pool |-> pool, admin |-> 1]
    /\ call = NoCall
    /\ old_bank = bank
    /\ old_group = group
    /\ nops = 0

GetBank ==
    \E mint_pk \in LookupKeys :
        /\ Step
        /\ call' = [NoCall EXCEPT !.op = "get_bank", !.mint_pk = mint_pk,
                        !.slot = get_bank_slot(group.lending_pool, mint_pk),
                        !.found = get_bank(group.lending_pool, mint_pk)]
        /\ UNCHANGED <<bank, group>>

\* if let Some(b) = pool.get_bank_mut(mint_pk) { b.change_deposit_shares(shares) }
HandleChangeDepositShares ==
    \E mint_pk \in LookupKeys, shares \in HandleDeltas :
        LET i == get_bank_mut(group.lending_pool, mint_pk) IN
        /\ Step
        /\ IF i = 0
           THEN /\ call' = [NoCall EXCEPT !.op = "get_bank_mut", !.mint_pk = mint_pk,
                                !.shares = shares, !.res = "None"]
                /\ UNCHANGED group
           ELSE LET r == change_deposit_shares(unwrap(group.lending_pool.banks[i]), shares) IN
                /\ call' = [NoCall EXCEPT !.op = "get_bank_mut", !.mint_pk = mint_pk,
                                !.shares = shares, !.slot = i, !.res = r.res]
                /\ group' = [group EXCEPT !.lending_pool =
                                store_bank(group.lending_pool, i, r.self)]
        /\ UNCHANGED bank

\* if let Some(b) = pool.get_bank_mut(mint_pk) { b.configure(config) }
HandleConfigure ==
    \E mint_pk \in LookupKeys, config \in HandlePatches :
        LET i == get_bank_mut(group.lending_pool, mint_pk) IN
        /\ Step
        /\ IF i = 0
           THEN /\ call' = [NoCall EXCEPT !.op = "get_bank_mut", !.mint_pk = mint_pk,
                                !.bank_config = config, !.res = "None"]
                /\ UNCHANGED group
           ELSE LET r == Bank_configure(unwrap(group.lending_pool.banks[i]), config) IN
                /\ call' = [NoCall EXCEPT !.op = "get_bank_mut", !.mint_pk = mint_pk,
                                !.bank_config = config, !.slot = i, !.res = r.res]
                /\ group' = [group EXCEPT !.lending_pool =
                                store_bank(group.lending_pool, i, r.self)]
        /\ UNCHANGED bank

SetInitialConfiguration ==
    \E admin_pk \in {Pubkey_default, NumKeys} :
        /\ Step
        /\ group' = set_initial_configuration(group, admin_pk)
        /\ call' = [NoCall EXCEPT !.op = "set_initial_configuration",
                                  !.admin_pk = admin_pk]
        /\ UNCHANGED bank

NextPool ==
    \/ GetBank
    \/ HandleChangeDepositShares
    \/ HandleConfigure
    \/ SetInitialConfiguration

SpecPool == InitPool /\ [][NextPool]_vars

\* ------------------------------------------------------------- claims
\* Exact products (2 * FRAC_NBITS fractional bits), as the claims state them.
DepositValue(b) == b.total_deposit_shares * b.deposit_share_value
CapacityValue(b) == from_u64(b.config.max_capacity) * b.deposit_share_value

IsDeposit == call.op = "change_deposit_shares"
IsBorrow == call.op = "change_liability_shares"
IsBankConfigure == call.op = "Bank::configure"
IsGroupConfigure == call.op = "MarginfiGroup::configure"
IsGetWeights == call.op = "get_weights"

\* C1: in the Bank state left by any change_deposit_shares call with a
\* positive delta, total_deposit_shares * deposit_share_value is at most
\* max_capacity * deposit_share_value.
C1_DepositWithinCapacity ==
    (IsDeposit /\ call.shares > 0) => DepositValue(bank) <= CapacityValue(bank)

\* C2: change_deposit_shares with a positive delta fails with
\* BankDepositCapacityExceeded only if the new total deposit value strictly
\* exceeds the capacity value; a total exactly at capacity succeeds.
C2_FailsOnlyAboveCapacity ==
    (IsDeposit /\ call.shares > 0 /\ call.res = BankDepositCapacityExceeded)
        => DepositValue(bank) > CapacityValue(bank)

\* C3 as stated: with deposit_share_value = 1, capacity C and total T, a
\* positive delta d with T + d < C returns Ok and sets the total to T + d,
\* and one with T + d > C fails with BankDepositCapacityExceeded.
C3_AsStated ==
    (IsDeposit /\ call.shares > 0 /\ old_bank.deposit_share_value = I80F48_ONE)
        => LET T == old_bank.total_deposit_shares
               C == from_u64(old_bank.config.max_capacity)
               d == call.shares
           IN  /\ T + d < C =>
                    call.res = OkRes /\ bank.total_deposit_shares = T + d
               /\ T + d > C => call.res = BankDepositCapacityExceeded

\* C3 amended: the same, where T + d > C fails with
\* BankDepositCapacityExceeded provided T + d is representable, and with
\* MathError otherwise; from T = 0, C = 1000 a deposit of 500 reaches 500 and
\* a following deposit of 600 fails.
C3_BelowOkAboveFails ==
    (IsDeposit /\ call.shares > 0 /\ old_bank.deposit_share_value = I80F48_ONE)
        => LET T == old_bank.total_deposit_shares
               C == from_u64(old_bank.config.max_capacity)
               d == call.shares
           IN  /\ T + d < C =>
                    call.res = OkRes /\ bank.total_deposit_shares = T + d
               /\ (T + d > C /\ fits(T + d)) =>
                    call.res = BankDepositCapacityExceeded
               /\ (T + d > C /\ ~fits(T + d)) => call.res = MathError

C3_Witness ==
    /\ IsDeposit
    /\ call.shares = from_u64(600)
    /\ old_bank.total_deposit_shares = from_u64(500)
    /\ old_bank.config.max_capacity = 1000
    /\ call.res = BankDepositCapacityExceeded

\* C4: when change_deposit_shares fails with BankDepositCapacityExceeded the
\* total has already been changed: total_deposit_shares is the old total
\* plus delta, and every other Bank field is as before.
C4_FailedDepositKeepsMutation ==
    (IsDeposit /\ call.res = BankDepositCapacityExceeded)
        => bank = [old_bank EXCEPT !.total_deposit_shares =
                       old_bank.total_deposit_shares + call.shares]

C4_Witness ==
    /\ IsDeposit
    /\ call.res = BankDepositCapacityExceeded
    /\ call.shares = from_u64(600)
    /\ old_bank.total_deposit_shares = from_u64(500)
    /\ bank.total_deposit_shares = from_u64(1100)

\* C5: after change_deposit_shares(d) fails with BankDepositCapacityExceeded
\* on a Bank whose total before the call was T, a following
\* change_deposit_shares(d') on the same Bank with 0 < d' < d and T + d'
\* within capacity succeeds.
C5_RetrySmallerSucceeds ==
    [][ ( /\ IsDeposit /\ call.res = BankDepositCapacityExceeded
          /\ call'.op = "change_deposit_shares"
          /\ 0 < call'.shares /\ call'.shares < call.shares
          /\ (old_bank.total_deposit_shares + call'.shares)
                 * bank.deposit_share_value <= CapacityValue(bank) )
        => call'.res = OkRes ]_vars

\* C6: change_deposit_shares with a negative delta never fails with
\* BankDepositCapacityExceeded, and returns Ok with the total changed by the
\* delta whenever the checked addition does not overflow, also when the
\* total deposit value is already above capacity.
C6_WithdrawNeverCapacityChecked ==
    (IsDeposit /\ call.shares < 0)
        => /\ call.res # BankDepositCapacityExceeded
           /\ fits(old_bank.total_deposit_shares + call.shares) =>
                /\ call.res = OkRes
                /\ bank.total_deposit_shares =
                       old_bank.total_deposit_shares + call.shares

C6_Witness ==
    /\ IsDeposit
    /\ call.shares < 0
    /\ call.res = OkRes
    /\ DepositValue(old_bank) > CapacityValue(old_bank)
    /\ DepositValue(bank) > CapacityValue(bank)

\* C7: change_liability_shares has no capacity or utilization ceiling: when
\* the checked addition does not overflow it returns Ok and sets
\* total_borrow_shares to the old total plus delta, whatever max_capacity and
\* total_deposit_shares are; its only failure is MathError.
C7_BorrowUncapped ==
    IsBorrow
        => /\ call.res \in {OkRes, MathError}
           /\ fits(old_bank.total_borrow_shares + call.shares) =>
                /\ call.res = OkRes
                /\ bank.total_borrow_shares =
                       old_bank.total_borrow_shares + call.shares
           /\ call.res = MathError =>
                ~fits(old_bank.total_borrow_shares + call.shares)

C7_Witness ==
    /\ IsBorrow
    /\ call.shares > 0
    /\ call.res = OkRes
    /\ bank.total_borrow_shares > bank.total_deposit_shares
    /\ bank.total_borrow_shares * bank.liability_share_value > CapacityValue(bank)

\* C8: in every Bank state reachable from Bank::new by share changes of
\* either sign, total_deposit_shares >= 0 and total_borrow_shares >= 0.
C8_TotalsNonNegative ==
    bank.total_deposit_shares >= 0 /\ bank.total_borrow_shares >= 0

\* C9: a patch merge returns Ok; every config field present in the patch
\* equals the patch value afterwards and every absent one keeps its value; an
\* all-absent patch changes nothing; Bank::configure leaves every Bank field
\* outside config unchanged and MarginfiGroup::configure leaves the lending
\* pool unchanged.
C9_PatchMerge ==
    /\ IsBankConfigure =>
         /\ call.res = OkRes
         /\ \A f \in ConfigFields :
              bank.config[f] = IF call.bank_config[f] # None
                               THEN call.bank_config[f][1]
                               ELSE old_bank.config[f]
         /\ bank = [old_bank EXCEPT !.config = bank.config]
         /\ call.bank_config = BankConfigOpt_none => bank = old_bank
    /\ IsGroupConfigure =>
         /\ call.res = OkRes
         /\ group.admin = IF call.group_config.admin # None
                          THEN call.group_config.admin[1]
                          ELSE old_group.admin
         /\ group.lending_pool = old_group.lending_pool
         /\ call.group_config = GroupConfig_none => group = old_group

C9_Witness ==
    /\ IsBankConfigure
    /\ call.bank_config = BankConfigOpt_of(InitTier)
    /\ bank.config.deposit_weight_init # old_bank.config.deposit_weight_init
    /\ bank.config.deposit_weight_maint = old_bank.config.deposit_weight_maint
    /\ bank.total_deposit_shares # 0

\* C10: get_weights(Initial) returns (deposit_weight_init,
\* liability_weight_init) and get_weights(Maintenance) returns
\* (deposit_weight_maint, liability_weight_maint); a Bank::configure whose
\* patch leaves one tier's weight fields absent leaves get_weights of that
\* tier as it was.
TierPair(c, weight_type) ==
    IF weight_type = "Initial"
    THEN <<c.deposit_weight_init.value, c.liability_weight_init.value>>
    ELSE <<c.deposit_weight_maint.value, c.liability_weight_maint.value>>

TierFields(weight_type) == IF weight_type = "Initial" THEN InitTier ELSE MaintTier

C10_WeightTiers ==
    /\ IsGetWeights => call.weights = TierPair(bank.config, call.weight_type)
    /\ IsBankConfigure =>
         \A t \in WeightTypes :
            (\A f \in TierFields(t) : call.bank_config[f] = None)
                => get_weights(bank.config, t) = TierPair(old_bank.config, t)

C10_Witness ==
    /\ IsGetWeights
    /\ call.weight_type = "Maintenance"
    /\ call.weights = TierPair(InitConfig, "Maintenance")
    /\ bank.config.deposit_weight_init = PatchValue.deposit_weight_init
    /\ bank.config.liability_weight_init = PatchValue.liability_weight_init

\* C15: a Bank created by Bank::new has both share values 1 and both totals
\* 0, and along any sequence of share changes and configure calls, failing
\* ones included, neither share value decreases: both stay 1.
C15_UnitShareValues ==
    /\ call.op = "new" =>
         /\ bank.deposit_share_value = I80F48_ONE
         /\ bank.liability_share_value = I80F48_ONE
         /\ bank.total_deposit_shares = 0
         /\ bank.total_borrow_shares = 0
    /\ bank.deposit_share_value >= old_bank.deposit_share_value
    /\ bank.liability_share_value >= old_bank.liability_share_value
    /\ bank.deposit_share_value = I80F48_ONE
    /\ bank.liability_share_value = I80F48_ONE

C15_Witness ==
    /\ IsDeposit
    /\ call.res = BankDepositCapacityExceeded
    /\ bank.total_deposit_shares # old_bank.total_deposit_shares
    /\ bank.total_borrow_shares # 0
    /\ bank.config # InitConfig
    /\ bank.deposit_share_value = I80F48_ONE

\* C19: a share change whose checked addition overflows fails with MathError
\* and leaves the Bank unchanged: change_liability_shares on any failure
\* leaves every field as before, change_deposit_shares whose addition
\* overflows leaves total_deposit_shares as before; neither operation ever
\* changes the other side's total, the share values or the config.
C19_OverflowLeavesBank ==
    /\ (IsBorrow /\ call.res # OkRes) => bank = old_bank
    /\ (IsDeposit /\ ~fits(old_bank.total_deposit_shares + call.shares)) =>
         /\ call.res = MathError
         /\ bank.total_deposit_shares = old_bank.total_deposit_shares
    /\ (IsBorrow /\ ~fits(old_bank.total_borrow_shares + call.shares)) =>
         call.res = MathError
    /\ IsDeposit =>
         bank = [old_bank EXCEPT !.total_deposit_shares = bank.total_deposit_shares]
    /\ IsBorrow =>
         bank = [old_bank EXCEPT !.total_borrow_shares = bank.total_borrow_shares]

C19_Witness ==
    /\ IsBorrow
    /\ call.res = MathError
    /\ call.shares = I80F48_MIN
    /\ old_bank.total_borrow_shares < 0
    /\ bank = old_bank

\* ------------------------------------------------------------- conversions
\* Share values a Bank record can hold (the fields are public): zero, one
\* unit of the last bit, below one, one, just above one, above one, large,
\* negative, and the extremes of the type.
ShareValues ==
    { I80F48_ZERO, 1, I80F48_ONE \div 2, I80F48_ONE, I80F48_ONE + 1,
      3 * (I80F48_ONE \div 2), from_u64(3), from_u64(1000),
      0 - I80F48_ONE, 0 - 3, I80F48_MAX, I80F48_MIN }

\* Values and share amounts handed to the conversions.
ConvValues ==
    { 0, 1, 0 - 1, 7, 0 - 7, I80F48_ONE, from_u64(600) + 5,
      from_u64(1000) - 1, 1 - from_u64(1000), I80F48_MAX, I80F48_MIN }

ConvBank(dsv, lsv) ==
    [Bank_new(InitConfig, 1, 1, 1, 1) EXCEPT !.deposit_share_value = dsv,
                                             !.liability_share_value = lsv]

InitConv ==
    /\ \E dsv \in ShareValues :
       \E lsv \in {dsv, I80F48_ONE, from_u64(3)} :
          bank = ConvBank(dsv, lsv)
    /\ group = [lending_pool |-> LendingPool_default, admin |-> 1]
    /\ call = NoCall
    /\ old_bank = bank
    /\ old_group = group
    /\ nops = 0

GetDepositShares ==
    \E value \in ConvValues :
        /\ Step
        /\ call' = [NoCall EXCEPT !.op = "get_deposit_shares",
                                  !.shares = value,
                                  !.out = get_deposit_shares(bank, value)]
        /\ UNCHANGED <<bank, group>>

GetLiabilityShares ==
    \E value \in ConvValues :
        /\ Step
        /\ call' = [NoCall EXCEPT !.op = "get_liability_shares",
                                  !.shares = value,
                                  !.out = get_liability_shares(bank, value)]
        /\ UNCHANGED <<bank, group>>

\* get_deposit_shares(v), then get_deposit_value of the shares it returned.
RoundTripDeposit ==
    \E value \in ConvValues :
        LET s == get_deposit_shares(bank, value) IN
        /\ Step
        /\ call' = [NoCall EXCEPT !.op = "round_trip",
                                  !.shares = value,
                                  !.out = s,
                                  !.res = s.err,
                                  !.back = IF s.err = OkRes
                                           THEN get_deposit_value(bank, s.val)
                                           ELSE s]
        /\ UNCHANGED <<bank, group>>

NextConv == GetDepositShares \/ GetLiabilityShares \/ RoundTripDeposit

SpecConv == InitConv /\ [][NextConv]_vars

\* ------------------------------------------------------------- snapshot builder
\* clients/rust/defi-lamma-snapshot-builder/src/main.rs

\* Compounding periods per year handed to apr_to_apy by from_bank
\* (marginfi::constants::SECONDS_PER_YEAR, 31_536_000 there), as an integer.
SECONDS_PER_YEAR == 4

\* The base and exponent apr_to_apy hands to powf: (1. + (apr / m)) and m.
pow_input(apr, m) == <<f64_add(F64_ONE, f64_div(apr, m)), m>>

\* fn apr_to_apy(apr: f64, m: f64) -> f64 { (1. + (apr / m)).powf(m) - 1. }
\* libm maps each powf input to the neighbour the platform's pow returns.
apr_to_apy(apr, m, libm) ==
    f64_sub(f64_powf(pow_input(apr, m)[1], m, libm[pow_input(apr, m)]), F64_ONE)

\* The rounding choices a libm can make on a set of powf inputs: the upper
\* neighbour only where the power is inexact.
Libms(inputs) ==
    { l \in [inputs -> BOOLEAN] :
        \A pi \in inputs :
            l[pi] => f64_powf(pi[1], pi[2], TRUE) # f64_powf(pi[1], pi[2], FALSE) }

\* ---- the build
\* overflow_checks: the integer operators +, - and pow panic on overflow
\* (they wrap without it). debug_assertions: *, / and from_num of crate
\* fixed panic on overflow (they return the wrapped value without it).
Builds == [overflow_checks : BOOLEAN, debug_assertions : BOOLEAN]

\* i32 multiplication a * b for 0 <= b < 2^15, in 16-bit halves:
\* <<the product wrapped to 32 bits, whether it overflowed>>.
overflowing_mul_i32(a, b) ==
    LET al == a % 65536
        ah == (a - al) \div 65536
        lowprod == al * b
        c == lowprod \div 65536
        d == lowprod % 65536
        high == ah * b + c
        hw == high % 65536
        hs == IF hw >= 32768 THEN hw - 65536 ELSE hw
    IN  <<hs * 65536 + d, high # hs>>

\* The wrapped power p times b, overflowed when p had or the product does.
then_mul_i32(p, b) ==
    IF p[2] THEN <<overflowing_mul_i32(p[1], b)[1], TRUE>>
    ELSE overflowing_mul_i32(p[1], b)

\* b to the power exp in i32: <<the power wrapped to 32 bits, whether it
\* overflowed>>. A power of an even b above the 32nd is that of the 32nd:
\* zero in 32 bits, overflowed unless b is 0.
RECURSIVE overflowing_pow_i32(_, _)
overflowing_pow_i32(b, exp) ==
    IF exp = 0 THEN <<1, FALSE>>
    ELSE IF exp > 32 /\ b % 2 = 0 THEN overflowing_pow_i32(b, 32)
    ELSE then_mul_i32(overflowing_pow_i32(b, exp - 1), b)

\* 10i32.pow(exp): with overflow checks an overflow panics (None), without
\* them the result is the wrapped power.
i32_pow(b, exp, overflow_checks) ==
    LET r == overflowing_pow_i32(b, exp)
    IN  IF r[2] /\ overflow_checks THEN None ELSE Some(r[1])

\* An integer as f64 (`as f64`).
f64_of_int(n) ==
    IF n = 0 THEN F64_ZERO
    ELSE IF n = (0 - 2147483647) - 1 THEN <<0 - 1, 31>>
    ELSE f64_round(n, FALSE, 0)

\* ---- the operators of I80F48 (crate fixed). A panic is None.
\* Two's-complement wrap-around of a result that left the type.
wrapping(v) == ((v - I80F48_MIN) % Pow2(I80F48_BITS)) + I80F48_MIN

\* The outcome of an operator whose exact result is v: v when it fits, else
\* a panic in a build that checks and the wrapped value in one that does not.
overflowing(v, checked) ==
    IF fits(v) THEN Some(v)
    ELSE IF checked THEN None
    ELSE Some(wrapping(v))

\* a + b and a - b: the integer operation on the bits.
add(a, b, build) == overflowing(a + b, build.overflow_checks)
sub(a, b, build) == overflowing(a - b, build.overflow_checks)

\* a * b: the wide product shifted right by the fractional bits.
mul(a, b, build) ==
    overflowing((a * b) \div Pow2(FRAC_NBITS), build.debug_assertions)

\* a / b: panics on a zero divisor in every build.
div(a, b, build) ==
    IF b = 0 THEN None
    ELSE overflowing(int_div(a * Pow2(FRAC_NBITS), b), build.debug_assertions)

\* The operators on operands whose computation may have panicked.
then_sub(oa, ob, build) ==
    IF oa = None \/ ob = None THEN None ELSE sub(unwrap(oa), unwrap(ob), build)

then_mul(oa, ob, build) ==
    IF oa = None \/ ob = None THEN None ELSE mul(unwrap(oa), unwrap(ob), build)

then_div(oa, ob, build) ==
    IF oa = None \/ ob = None THEN None ELSE div(unwrap(oa), unwrap(ob), build)

\* m / 2^sh, sh >= 1, rounded to the nearest integer, ties to even.
round_half_even(m, sh) ==
    IF sh > 30 THEN 0
    ELSE LET a == Abs(m)
             q == a \div Pow2(sh)
             r == a % Pow2(sh)
             half == Pow2(sh - 1)
             q2 == IF r > half \/ (r = half /\ q % 2 = 1) THEN q + 1 ELSE q
         IN  IF m < 0 THEN 0 - q2 ELSE q2

\* I80F48::from_num(f64): the float as bits, rounded to nearest, ties to
\* even. Panics on NaN and on an infinity; a value that does not fit is an
\* overflow. A float that is a multiple of 2^(I80F48_BITS - FRAC_NBITS)
\* wraps to zero.
from_num_f64(x, build) ==
    IF ~is_finite(x) THEN None
    ELSE IF is_zero(x) THEN Some(0)
    ELSE IF x[2] + FRAC_NBITS >= I80F48_BITS
         THEN (IF build.debug_assertions THEN None ELSE Some(0))
    ELSE IF x[2] + FRAC_NBITS >= 0
         THEN overflowing(x[1] * Pow2(x[2] + FRAC_NBITS), build.debug_assertions)
    ELSE Some(round_half_even(x[1], 0 - (x[2] + FRAC_NBITS)))

\* ---- what from_bank reads
\* A Bank as from_bank reads it: mint, mint_decimals, the emission fields,
\* the share totals and share values, config.liability_weight_init.
\* The two emission flags of a Bank.
EMISSIONS_FLAG_BORROW_ACTIVE == "BORROW_ACTIVE"
EMISSIONS_FLAG_LENDING_ACTIVE == "LENDING_ACTIVE"
EmissionsFlags == {EMISSIONS_FLAG_BORROW_ACTIVE, EMISSIONS_FLAG_LENDING_ACTIVE}

\* bk.get_emissions_flag(flag): is the flag set in the Bank's flags.
get_emissions_flag(self, flag) == flag \in self.emissions_flags

\* bk.get_asset_amount(shares) and bk.get_liability_amount(shares): the
\* value of the shares at the Bank's share value, Err(MathError) as None.
get_asset_amount(self, shares) == checked_mul(shares, self.asset_share_value)
get_liability_amount(self, shares) == checked_mul(shares, self.liability_share_value)

\* Pubkey::to_string
to_string(pk) == ToString(pk)

\* The world from_bank asks, each answer None when the request fails:
\*   token_price, emissions_token_price: the number the price service
\*     returns for the mint and for the emission mint (l.163-181);
\*   emissions_mint_decimals: decimals of the unpacked emission mint
\*     account (l.113-114);
\*   interest_rate: <<lending_rate, borrowing_rate>> of
\*     calc_interest_rate (l.105-109);
\*   token_list: the symbols of tokens.json by mint (l.15-22).

\* ---- DefiLammaPoolInfo::from_bank, step by step. Each step is None when
\* it, or a step it needs, panics.
\* l.71
ltv(bk, build) == div(I80F48_ONE, bk.config.liability_weight_init, build)

\* l.72-76
reward_tokens(bk) ==
    IF bk.emissions_mint # Pubkey_default
    THEN <<to_string(bk.emissions_mint)>> ELSE <<>>

\* l.163-183: Ok(I80F48::from_num(price.unwrap())), unwrapped by the caller.
fetch_price_from_birdeye(response, build) ==
    IF response = None THEN None ELSE from_num_f64(unwrap(response), build)

\* l.78
token_price(env, build) == fetch_price_from_birdeye(env.token_price, build)

\* l.79: I80F48::from_num(10_i32.pow(mint_decimals)). Every i32 fits an
\* I80F48 (80 integer bits), so the conversion is lossless; the scaled type
\* cannot hold it, and scale is kept as the integer.
scale(bk, build) == i32_pow(10, bk.mint_decimals, build.overflow_checks)

\* amount / scale: the division of the bits by the integer; panics on a
\* scale of zero.
div_scale(amount, s, build) ==
    IF amount = None \/ s = None THEN None
    ELSE IF unwrap(s) = 0 THEN None
    ELSE overflowing(int_div(unwrap(amount), unwrap(s)), build.debug_assertions)

\* l.81-84
total_deposits(bk, build) ==
    div_scale(get_asset_amount(bk, bk.total_asset_shares), scale(bk, build), build)

\* l.85-88
total_borrows(bk, build) ==
    div_scale(get_liability_amount(bk, bk.total_liability_shares),
              scale(bk, build), build)

\* l.90
net_supply(bk, build) ==
    then_sub(total_deposits(bk, build), total_borrows(bk, build), build)

\* l.92
tvl_usd(bk, env, build) ==
    then_mul(token_price(env, build), net_supply(bk, build), build)

\* l.94
total_supply_usd(bk, env, build) ==
    then_mul(token_price(env, build), total_deposits(bk, build), build)

\* l.95
total_borrow_usd(bk, env, build) ==
    then_mul(token_price(env, build), total_borrows(bk, build), build)

\* l.99-103
ur_of(deposits, borrows, build) ==
    IF deposits = None \/ borrows = None THEN None
    ELSE IF unwrap(deposits) > 0 THEN div(unwrap(borrows), unwrap(deposits), build)
    ELSE Some(I80F48_ZERO)

ur(bk, build) == ur_of(total_deposits(bk, build), total_borrows(bk, build), build)

\* l.105-109: calc_interest_rate(ur).unwrap(), the rate curve's answer for
\* a utilisation that was computed.
calc_interest_rate(env, utilisation) ==
    IF utilisation = None THEN None ELSE env.interest_rate

\* l.112
emissions_token_price(env, build) ==
    fetch_price_from_birdeye(env.emissions_token_price, build)

\* l.117-118: rate as f64 / 10i32.pow(decimals) as f64
rate_per_token(rate, p) ==
    IF p = None THEN None
    ELSE Some(f64_div(f64_of_int(rate), f64_of_int(unwrap(p))))

\* l.113-118
reward_rate_per_token(bk, env, build) ==
    IF env.emissions_mint_decimals = None THEN None
    ELSE rate_per_token(bk.emissions_rate,
                        i32_pow(10, unwrap(env.emissions_mint_decimals),
                                build.overflow_checks))

\* I80F48::from_num(reward_rate_per_token)
then_from_num(x, build) ==
    IF x = None THEN None ELSE from_num_f64(unwrap(x), build)

\* l.119-121: (emissions_token_price * from_num(rate per token)) / token_price
relative_emissions_value(bk, env, build) ==
    then_div(then_mul(emissions_token_price(env, build),
                      then_from_num(reward_rate_per_token(bk, env, build), build),
                      build),
             token_price(env, build), build)

\* Mutant: the lending side gated by the borrow flag.
gated_rewards_one_flag(bk, rev) ==
    IF rev = None THEN None
    ELSE Some(<< IF get_emissions_flag(bk, EMISSIONS_FLAG_BORROW_ACTIVE)
                 THEN rev ELSE None,
                 IF get_emissions_flag(bk, EMISSIONS_FLAG_BORROW_ACTIVE)
                 THEN rev ELSE None >>)

\* l.123-134: the relative emissions value rev (None when computing it
\* panicked) as the lending reward when the lending flag is set and as the
\* borrow reward when the borrow flag is set.
gated_rewards(bk, rev) ==
    IF rev = None THEN None
    ELSE Some(<< IF get_emissions_flag(bk, EMISSIONS_FLAG_LENDING_ACTIVE)
                 THEN rev ELSE None,
                 IF get_emissions_flag(bk, EMISSIONS_FLAG_BORROW_ACTIVE)
                 THEN rev ELSE None >>)

\* l.111-137: (apr_reward, apr_reward_borrow); None when it panics.
apr_rewards(bk, env, build) ==
    IF bk.emissions_mint # Pubkey_default
    THEN gated_rewards(bk, relative_emissions_value(bk, env, build))
    ELSE Some(<<None, None>>)

\* A sum that did not panic, as the present value of an Option.
some_of(sum) == IF sum = None THEN None ELSE Some(sum)

\* (rate + a) in the closure of Option::map (l.154, l.157): no reward stays
\* no reward, Some(None); a present reward is added to the rate, and the
\* sum is present whatever + returns; None when + panics.
reward_rate(o, rate, build) ==
    IF o = None THEN Some(None) ELSE some_of(add(rate, unwrap(o), build))

\* The four rates handed to apr_to_apy (l.152-157).
rates_record(base, reward, base_borrow, reward_borrow) ==
    IF reward = None \/ reward_borrow = None THEN None
    ELSE Some([ base |-> base, reward |-> unwrap(reward),
                base_borrow |-> base_borrow,
                reward_borrow |-> unwrap(reward_borrow) ])

\* The rates from the interest rates and the pair of rewards.
apy_rates_of(rates, rewards, build) ==
    IF rates = None \/ rewards = None THEN None
    ELSE rates_record(unwrap(rates)[1],
                      reward_rate(unwrap(rewards)[1], unwrap(rates)[1], build),
                      unwrap(rates)[2],
                      reward_rate(unwrap(rewards)[2], unwrap(rates)[2], build))

apy_rates(bk, env, build) ==
    apy_rates_of(calc_interest_rate(env, ur(bk, build)),
                 apr_rewards(bk, env, build), build)

\* l.142-146: TOKEN_LIST.get(token_mint).unwrap_or(&"Unknown Token"); the
\* first use of TOKEN_LIST reads tokens.json and panics when that fails.
symbol(bk, env) ==
    IF env.token_list = None THEN None
    ELSE IF to_string(bk.mint) \in DOMAIN unwrap(env.token_list)
    THEN Some(unwrap(env.token_list)[to_string(bk.mint)])
    ELSE Some("Unknown Token")

\* Everything from_bank computes before it builds the record; None when
\* any of it panics.
fields_of(l, tvl, supply, borrow, rates, sym) ==
    IF l = None \/ tvl = None \/ supply = None \/ borrow = None
         \/ rates = None \/ sym = None
    THEN None
    ELSE Some([ ltv |-> unwrap(l), tvl_usd |-> unwrap(tvl),
                total_supply_usd |-> unwrap(supply),
                total_borrow_usd |-> unwrap(borrow),
                rates |-> unwrap(rates), symbol |-> unwrap(sym) ])

fields(bk, env, build) ==
    fields_of(ltv(bk, build), tvl_usd(bk, env, build),
              total_supply_usd(bk, env, build), total_borrow_usd(bk, env, build),
              apy_rates(bk, env, build), symbol(bk, env))

\* SECONDS_PER_YEAR.to_num()
periods_per_year == to_num_f64(from_u64(SECONDS_PER_YEAR))

\* The rates among r that are present.
present_rates(r) ==
    {r.base, r.base_borrow}
        \cup (IF is_some(r.reward) THEN {unwrap(r.reward)} ELSE {})
        \cup (IF is_some(r.reward_borrow) THEN {unwrap(r.reward_borrow)} ELSE {})

\* The powf inputs of a call that computed fs.
pow_inputs_of(fs) ==
    IF fs = None THEN {}
    ELSE { pow_input(to_num_f64(x), periods_per_year) :
             x \in present_rates(unwrap(fs).rates) }

\* The powf inputs of one call of from_bank that returns.
pow_inputs(bk, env, build) == pow_inputs_of(fields(bk, env, build))

\* Option::map(|a| apr_to_apy(..))
map_apy(o, libm) ==
    IF is_some(o)
    THEN Some(apr_to_apy(to_num_f64(unwrap(o)), periods_per_year, libm))
    ELSE None

CHAIN == "solana"
PROJECT == "marginfi"

\* l.139-159: the DefiLammaPoolInfo built from the computed fields; a panic
\* when computing them panicked.
pool_info(bk, bank_pk, fs, libm) ==
    IF fs = None THEN [res |-> "panic", info |-> <<>>]
    ELSE [ res |-> OkRes,
           info |->
             [ pool |-> to_string(bank_pk),
               chain |-> CHAIN,
               project |-> PROJECT,
               symbol |-> unwrap(fs).symbol,
               tvl_usd |-> to_num_f64(unwrap(fs).tvl_usd),
               total_supply_usd |-> to_num_f64(unwrap(fs).total_supply_usd),
               total_borrow_usd |-> to_num_f64(unwrap(fs).total_borrow_usd),
               ltv |-> to_num_f64(unwrap(fs).ltv),
               reward_tokens |-> reward_tokens(bk),
               apy_base |->
                   apr_to_apy(to_num_f64(unwrap(fs).rates.base),
                              periods_per_year, libm),
               apy_reward |-> map_apy(unwrap(fs).rates.reward, libm),
               apy_base_borrow |->
                   apr_to_apy(to_num_f64(unwrap(fs).rates.base_borrow),
                              periods_per_year, libm),
               apy_reward_borrow |-> map_apy(unwrap(fs).rates.reward_borrow, libm),
               underlying_tokens |-> <<to_string(bk.mint)>> ] ]

\* DefiLammaPoolInfo::from_bank(bank, bank_pk, rpc_client). env is what the
\* price service, the RPC node, the rate curve and tokens.json answer
\* during the call, build the build's settings and libm the platform's pow.
from_bank(bk, bank_pk, env, build, libm) ==
    pool_info(bk, bank_pk, fields(bk, env, build), libm)

\* ---- inputs
\* Inputs of apr_to_apy: zeros, aprs too small to change 1.0 when added to
\* it, ordinary rates, negative rates down to below -periods, a rate whose
\* power overflows, an infinity and NaN.
Aprs ==
    { F64_ZERO, F64_NEG_ZERO,
      <<1, 0 - (MANTISSA_DIGITS + 2)>>, <<1, 0 - (MANTISSA_DIGITS + 1)>>,
      <<1, 0 - 3>>, <<1, 0 - 1>>, F64_ONE, <<3, 0 - 1>>, f64_of_int(3),
      <<0 - 1, 0 - 1>>, f64_of_int(0 - 1), f64_of_int(0 - 3),
      f64_of_int(0 - 4), f64_of_int(0 - 5),
      <<1, MAX_EXP \div 4 + 2>>, F64_INFINITY, F64_NAN }

\* Whole periods, a fractional period, zero, a negative period, infinity.
Periods ==
    { f64_of_int(1), f64_of_int(2), f64_of_int(3), f64_of_int(4), <<1, 0 - 1>>,
      F64_ZERO, f64_of_int(0 - 1), F64_INFINITY }

\* A Bank with both sides' emissions active and an environment in which
\* every request succeeds, a complete build.
BaseBank ==
    [ mint |-> 1, mint_decimals |-> 1,
      emissions_mint |-> 1,
      emissions_flags |-> EmissionsFlags,
      emissions_rate |-> 5,
      total_asset_shares |-> from_u64(40),
      total_liability_shares |-> from_u64(20),
      asset_share_value |-> I80F48_ONE,
      liability_share_value |-> I80F48_ONE,
      config |-> [liability_weight_init |-> from_u64(2)] ]

BaseEnv ==
    [ token_price |-> Some(F64_ONE),
      emissions_token_price |-> Some(f64_of_int(2)),
      emissions_mint_decimals |-> Some(1),
      interest_rate |-> Some(<<I80F48_ONE \div 4, I80F48_ONE \div 2>>),
      token_list |-> Some((to_string(1) :> "SOL")) ]

\* Banks that differ in the emission fields; mint_decimals 10 does not fit
\* an i32.
GatingBanks ==
    { [BaseBank EXCEPT !.emissions_mint = em, !.emissions_flags = fl,
                       !.emissions_rate = r] :
        em \in {Pubkey_default, 1}, fl \in SUBSET EmissionsFlags, r \in {0, 5} }

GatingEnvs ==
    { [BaseEnv EXCEPT !.interest_rate = Some(<<l, I80F48_ONE \div 2>>)] :
        l \in {0, I80F48_ONE \div 4} }

\* Banks on which a step of from_bank fails or takes its other branch.
EdgeBanks ==
    { [BaseBank EXCEPT !.config.liability_weight_init = 0],
      [BaseBank EXCEPT !.mint_decimals = 10],
      [BaseBank EXCEPT !.mint_decimals = 32],
      [BaseBank EXCEPT !.mint = 2],
      [BaseBank EXCEPT !.total_asset_shares = 0],
      [BaseBank EXCEPT !.total_asset_shares = I80F48_MAX,
                       !.asset_share_value = from_u64(2)],
      [BaseBank EXCEPT !.total_liability_shares = I80F48_MAX,
                       !.liability_share_value = from_u64(2)],
      [BaseBank EXCEPT !.mint_decimals = 0, !.total_asset_shares = I80F48_MIN,
                       !.total_liability_shares = from_u64(100)],
      [BaseBank EXCEPT !.mint_decimals = 0, !.total_asset_shares = 1,
                       !.total_liability_shares = I80F48_MAX] }

\* Environments in which a request fails, a price is zero or too large, a
\* rate is so large that its sum or its power overflows.
EdgeEnvs ==
    { [BaseEnv EXCEPT !.token_price = None],
      [BaseEnv EXCEPT !.token_price = Some(F64_ZERO)],
      [BaseEnv EXCEPT !.token_price = Some(<<1, I80F48_BITS - FRAC_NBITS>>)],
      [BaseEnv EXCEPT !.token_price = Some(<<1, I80F48_BITS - FRAC_NBITS - 2>>)],
      [BaseEnv EXCEPT !.emissions_token_price = None],
      [BaseEnv EXCEPT !.emissions_token_price =
                          Some(<<Pow2(MANTISSA_DIGITS) - 1,
                                 I80F48_BITS - FRAC_NBITS - 1 - MANTISSA_DIGITS>>),
                      !.emissions_mint_decimals = Some(0)],
      [BaseEnv EXCEPT !.emissions_token_price =
                          Some(<<1, I80F48_BITS - FRAC_NBITS - 4>>),
                      !.emissions_mint_decimals = Some(0),
                      !.interest_rate =
                          Some(<<I80F48_MAX - I80F48_ONE, I80F48_ONE \div 2>>)],
      [BaseEnv EXCEPT !.emissions_mint_decimals = None],
      [BaseEnv EXCEPT !.emissions_mint_decimals = Some(10)],
      [BaseEnv EXCEPT !.emissions_mint_decimals = Some(32)],
      [BaseEnv EXCEPT !.interest_rate = None],
      [BaseEnv EXCEPT !.interest_rate =
                          Some(<<I80F48_MAX - I80F48_ONE, I80F48_ONE \div 2>>)],
      [BaseEnv EXCEPT !.token_list = None] }

\* The calls of from_bank: the gating Banks in the gating environments, and
\* each edge with the base of the other kind; in every build.
FromBankInputs ==
    { [bank |-> b, bank_pk |-> 2, env |-> env, build |-> build] :
        b \in GatingBanks, env \in GatingEnvs, build \in Builds }
    \cup { [bank |-> b, bank_pk |-> 2, env |-> BaseEnv, build |-> build] :
             b \in EdgeBanks, build \in Builds }
    \cup { [bank |-> BaseBank, bank_pk |-> 2, env |-> env, build |-> build] :
             env \in EdgeEnvs, build \in Builds }

\* A call about to be made, with its arguments.
InitSnapshot ==
    /\ bank = Bank_new(InitConfig, 1, 1, 1, 1)
    /\ group = [lending_pool |-> LendingPool_default, admin |-> 1]
    /\ \/ \E apr \in Aprs : \E m \in Periods :
             call = [NoCall EXCEPT !.op = "call apr_to_apy",
                                   !.apr = apr, !.periods = m]
       \/ \E input \in FromBankInputs :
             call = [NoCall EXCEPT !.op = "call from_bank", !.input = input]
    /\ old_bank = bank
    /\ old_group = group
    /\ nops = 0

AprToApy ==
    /\ call.op = "call apr_to_apy"
    /\ \E libm \in Libms({pow_input(call.apr, call.periods)}) :
          call' = [call EXCEPT !.op = "apr_to_apy",
                               !.libm = libm,
                               !.apy = apr_to_apy(call.apr, call.periods, libm)]
    /\ UNCHANGED <<bank, group, old_bank, old_group, nops>>

\* The call c after it returned r on the platform libm.
returned(c, libm, r) ==
    [c EXCEPT !.op = "from_bank", !.libm = libm, !.res = r.res, !.info = r.info]

FromBank ==
    /\ call.op = "call from_bank"
    /\ \E libm \in Libms(pow_inputs(call.input.bank, call.input.env,
                                    call.input.build)) :
          call' = returned(call, libm,
                           from_bank(call.input.bank, call.input.bank_pk,
                                     call.input.env, call.input.build, libm))
    /\ UNCHANGED <<bank, group, old_bank, old_group, nops>>

NextSnapshot == AprToApy \/ FromBank

SpecSnapshot == InitSnapshot /\ [][NextSnapshot]_vars

\* ------------------------------------------------------------- pool claims
Banks == group.lending_pool.banks
OldBanks == old_group.lending_pool.banks
Matches(banks, i, id) == banks[i] # None /\ banks[i][1].mint = id

\* r is the slot a first-match search for id ends in: 0 when no populated
\* slot holds id, otherwise a matching slot with no matching slot before it.
FirstMatch(banks, id, r) ==
    \/ r = 0 /\ \A i \in Slots : ~Matches(banks, i, id)
    \/ r \in Slots /\ Matches(banks, r, id)
                   /\ \A i \in 1..(r - 1) : ~Matches(banks, i, id)

\* C11: get_bank(id) returns the Bank of the lowest-index populated slot
\* whose mint is id, skipping empty slots, and None exactly when no
\* populated slot has mint id; with pairwise distinct mints every slot's
\* mint is looked up to that slot's Bank.
C11_GetBankFirstMatch ==
    /\ call.op = "get_bank" =>
         /\ FirstMatch(Banks, call.mint_pk, call.slot)
         /\ call.found = IF call.slot = 0 THEN None ELSE <<Banks[call.slot][1]>>
         /\ (call.found = None) <=> (\A i \in Slots : ~Matches(Banks, i, call.mint_pk))
    /\ (\A i, j \in Slots :
           (Banks[i] # None /\ Banks[j] # None /\ i # j)
               => Banks[i][1].mint # Banks[j][1].mint)
         => \A i \in Slots :
               Banks[i] # None =>
                   get_bank(group.lending_pool, Banks[i][1].mint) = Banks[i]

C11_Witness ==
    /\ call.op = "get_bank"
    /\ \A i \in Slots : Banks[i] # None
    /\ call.mint_pk = MAX_LENDING_POOL_RESERVES
    /\ call.slot = MAX_LENDING_POOL_RESERVES
    /\ call.found = <<Banks[MAX_LENDING_POOL_RESERVES][1]>>

\* C12: set_initial_configuration(admin), on a group in any state, leaves
\* admin equal to the given identity and every lending-pool slot None, so
\* get_bank returns None for every mint.
C12_SetInitialResets ==
    call.op = "set_initial_configuration" =>
        /\ group.admin = call.admin_pk
        /\ \A i \in Slots : Banks[i] = None
        /\ \A id \in LookupKeys : get_bank(group.lending_pool, id) = None

C12_Witness ==
    /\ call.op = "set_initial_configuration"
    /\ \E i \in Slots : OldBanks[i] # None /\ OldBanks[i][1].total_deposit_shares # 0
    /\ old_group.admin # call.admin_pk
    /\ group.admin = call.admin_pk

\* C18: get_bank_mut(id) is None exactly when get_bank(id) is None and
\* otherwise refers to the slot get_bank(id) returns; a share change or
\* configure made through it is what a following get_bank(id) returns, and
\* every other slot, other slots with the same mint included, is unchanged.
C18_GetBankMutSameSlot ==
    call.op = "get_bank_mut" =>
        /\ call.slot = get_bank_slot(old_group.lending_pool, call.mint_pk)
        /\ (call.res = "None") <=> (get_bank(old_group.lending_pool, call.mint_pk) = None)
        /\ call.res = "None" => group = old_group
        /\ call.res # "None" =>
             /\ get_bank(group.lending_pool, call.mint_pk) = Banks[call.slot]
             /\ Banks[call.slot] =
                    IF call.bank_config = BankConfigOpt_none
                    THEN <<change_deposit_shares(OldBanks[call.slot][1], call.shares).self>>
                    ELSE <<Bank_configure(OldBanks[call.slot][1], call.bank_config).self>>
             /\ \A i \in Slots \ {call.slot} : Banks[i] = OldBanks[i]
             /\ group.admin = old_group.admin

C18_Witness ==
    /\ call.op = "get_bank_mut"
    /\ call.res # "None"
    /\ call.slot = 2
    /\ Banks[2] # OldBanks[2]
    /\ Banks[5] # None /\ Banks[5][1].mint = call.mint_pk
    /\ Banks[5] = OldBanks[5]

\* ------------------------------------------------------------- conversion claims

\* The quotient n / sv of the widened dividend, truncated, lies outside the type.
Unrepresentable(n, sv) ==
    IF (n < 0) = (sv < 0)
    THEN Abs(n) >= (I80F48_MAX + 1) * Abs(sv)
    ELSE Abs(n) >= (1 - I80F48_MIN) * Abs(sv)

\* q is n / sv rounded toward zero: the remainder is smaller than the
\* divisor in magnitude and has the sign of the dividend.
IsQuotient(q, n, sv) ==
    LET rem == n - q * sv
    IN  /\ Abs(rem) < Abs(sv)
        /\ rem = 0 \/ (rem < 0) = (n < 0)

\* C13: for a Bank with non-zero deposit_share_value and a value v for which
\* both conversions succeed, get_deposit_value(get_deposit_shares(v)) differs
\* from v by at most the magnitude of the share value rounded up, in units of
\* the last fractional bit: the division drops less than one unit of shares,
\* which the multiplication scales by the share value, and the
\* multiplication drops less than one unit of its own. That is one unit for
\* share values up to 1 and grows with the share value beyond. The result
\* equals v when deposit_share_value is 1.
C13_RoundTrip ==
    ( /\ call.op = "round_trip"
      /\ bank.deposit_share_value # 0
      /\ call.out.err = OkRes
      /\ call.back.err = OkRes )
    => LET e == Abs(call.back.val - call.shares)
       IN  /\ (e - 1) * Pow2(FRAC_NBITS) < Abs(bank.deposit_share_value)
           /\ bank.deposit_share_value = I80F48_ONE => e = 0

\* C13 as stated: one rounding tolerance for every Bank, a unit of the last
\* fractional bit for each of the two roundings. A Bank with a share value
\* above 2 breaks it: at share value 1000 the value 999.875 comes back as
\* 875.0.
C13_AsStated ==
    ( /\ call.op = "round_trip"
      /\ bank.deposit_share_value # 0
      /\ call.out.err = OkRes
      /\ call.back.err = OkRes )
    => /\ Abs(call.back.val - call.shares) <= 2
       /\ bank.deposit_share_value = I80F48_ONE
              => call.back.val = call.shares

C13_Witness ==
    /\ call.op = "round_trip"
    /\ bank.deposit_share_value = from_u64(1000)
    /\ call.shares = from_u64(1000) - 1
    /\ call.out = Ok(Pow2(FRAC_NBITS) - 1)
    /\ call.back.err = OkRes
    /\ call.back.val < call.shares - 1

\* C14: get_deposit_shares and get_liability_shares return the math error
\* for every value when their share value is zero; otherwise they return
\* value / share value, or the math error when that quotient does not fit
\* the type; the result is always Ok or the math error, and the Bank is
\* unchanged.
C14_SharesOfValue ==
    call.op \in {"get_deposit_shares", "get_liability_shares"} =>
        LET sv == IF call.op = "get_deposit_shares"
                  THEN bank.deposit_share_value
                  ELSE bank.liability_share_value
            n == call.shares * Pow2(FRAC_NBITS)
        IN  /\ bank = old_bank
            /\ call.out.err \in {OkRes, MathError}
            /\ sv = 0 => call.out.err = MathError
            /\ sv # 0 =>
                 /\ (call.out.err = MathError) <=> Unrepresentable(n, sv)
                 /\ call.out.err = OkRes =>
                        fits(call.out.val) /\ IsQuotient(call.out.val, n, sv)

C14_Witness ==
    /\ call.op = "get_liability_shares"
    /\ bank.liability_share_value = 0
    /\ call.shares = I80F48_ONE
    /\ call.out.err = MathError
    /\ bank = old_bank

\* ------------------------------------------------------------- snapshot claims
\* The Banks that are b with another emission mint or other emission flags.
EmissionVariants(b) ==
    { [b EXCEPT !.emissions_mint = em, !.emissions_flags = fl] :
        em \in {Pubkey_default, 1}, fl \in SUBSET EmissionsFlags }

\* The record other, returned for the Bank o, against the record info,
\* returned for b: same base APYs, and same reward APY on each side whose
\* flag is the same when the emission mint is the same.
SameButGated(b, info, o, other) ==
    /\ other.apy_base = info.apy_base
    /\ other.apy_base_borrow = info.apy_base_borrow
    /\ o.emissions_mint = b.emissions_mint =>
         /\ (EMISSIONS_FLAG_LENDING_ACTIVE \in o.emissions_flags
               <=> EMISSIONS_FLAG_LENDING_ACTIVE \in b.emissions_flags)
              => other.apy_reward = info.apy_reward
         /\ (EMISSIONS_FLAG_BORROW_ACTIVE \in o.emissions_flags
               <=> EMISSIONS_FLAG_BORROW_ACTIVE \in b.emissions_flags)
              => other.apy_reward_borrow = info.apy_reward_borrow

\* from_bank on the Bank o, which computes fs, returns a record that agrees
\* with info, when it returns and libm covers its powf inputs.
AgreesWith(b, info, o, pk, fs, libm) ==
    (fs # None /\ pow_inputs_of(fs) \subseteq DOMAIN libm) =>
        SameButGated(b, info, o, pool_info(o, pk, fs, libm).info)

\* C16: in the record from_bank returns, with the default emission mint both
\* reward APYs are None whatever the flags; with a non-default emission mint
\* apy_reward is present exactly when the lending flag is set and
\* apy_reward_borrow exactly when the borrow flag is set, neither depending
\* on the other flag; apy_base and apy_base_borrow are the same for every
\* emission mint and flag setting with which from_bank returns (same
\* answers of the world, same build, same platform pow).
C16_RewardGating ==
    (call.op = "from_bank" /\ call.res = OkRes) =>
        /\ call.input.bank.emissions_mint = Pubkey_default =>
             call.info.apy_reward = None /\ call.info.apy_reward_borrow = None
        /\ call.input.bank.emissions_mint # Pubkey_default =>
             /\ is_some(call.info.apy_reward)
                  <=> EMISSIONS_FLAG_LENDING_ACTIVE
                          \in call.input.bank.emissions_flags
             /\ is_some(call.info.apy_reward_borrow)
                  <=> EMISSIONS_FLAG_BORROW_ACTIVE
                          \in call.input.bank.emissions_flags
        /\ \A o \in EmissionVariants(call.input.bank) :
             AgreesWith(call.input.bank, call.info, o, call.input.bank_pk,
                        fields(o, call.input.env, call.input.build), call.libm)

C16_Witness ==
    /\ call.op = "from_bank"
    /\ call.res = OkRes
    /\ call.input.bank.emissions_mint # Pubkey_default
    /\ call.input.bank.emissions_flags = {EMISSIONS_FLAG_LENDING_ACTIVE}
    /\ call.input.bank.emissions_rate > 0
    /\ is_some(call.info.apy_reward)
    /\ f64_lt(call.info.apy_base, unwrap(call.info.apy_reward))
    /\ call.info.apy_reward_borrow = None

\* C17: for positive periods apr_to_apy(0, periods) is 0, and a larger apr
\* gives a strictly larger apy (whichever neighbour the platform's pow
\* returns for the larger apr).
C17_ZeroAndStrictlyIncreasing ==
    (call.op = "apr_to_apy" /\ f64_lt(F64_ZERO, call.periods)) =>
        /\ is_zero(call.apr) => is_zero(call.apy)
        /\ \A a \in Aprs :
             f64_lt(call.apr, a) =>
                 \E l \in Libms({pow_input(a, call.periods)}) :
                     f64_lt(call.apy, apr_to_apy(a, call.periods, l))

====
